---- MODULE Spec2Model ----
(***************************************************************************)
(* The image-processing pipeline of the application: App.handleImageSelect *)
(* (src/App.tsx) sequencing extractExifData and fileToBase64               *)
(* (src/services/imageService.ts) and analyzeImageWithGemini               *)
(* (src/services/geminiService.ts) over the single `data` record.          *)
(*                                                                         *)
(* Every activation of the async function handleImageSelect is a "run".    *)
(* A run suspends at its three awaits; each action below is the code that  *)
(* executes between two suspension points.  JavaScript values that may be  *)
(* null/undefined are options: None is <<>>, Some(x) is <<x>>.             *)
(***************************************************************************)
EXTENDS Integers, Sequences, FiniteSets, TLC

\* ------------------------------------------------------------- bounds
\* Activations of handleImageSelect in one behaviour (camera captures whose
\* toBlob callback is still outstanding count as activations to come).
MaxRuns == 2
\* Largest reading of Date.now() (the clock starts at 0).
MaxClock == 1
\* Sanitizer calls of handlePrivacyClean outstanding at one time.
MaxCleans == 1
\* Activations of handleImageSelect in one behaviour of CleanSpec.
MaxCleanRuns == 1
\* Times the CameraCapture component is mounted in one behaviour of CameraSpec.
MaxMounts == 2

\* ------------------------------------------------------------ options
None == <<>>
Some(x) == <<x>>
IsSome(o) == o # None
Get(o) == o[1]

\* A settled promise: resolved with a value, or rejected.
Resolve(v) == [kind |-> "resolve", value |-> v]
Reject == [kind |-> "reject", value |-> None]

\* ------------------------------------------------- services/imageService.ts
\* The tags extractExifData reads from exifr's output.
Tags == {"Make", "Model", "DateTimeOriginal", "ExposureTime", "FNumber", "ISO",
         "FocalLength", "latitude", "longitude", "Software", "ExifImageWidth",
         "ExifImageHeight"}

\* An exifr output carrying no tag at all (an object without these keys).
NoTags == [t \in Tags |-> None]

\* What exifr.parse may settle with: it throws (unparseable container), or it
\* yields undefined (no metadata segment), or an object of tags.  The objects
\* are samples: a camera with a timestamp and a full GPS position, and an
\* object carrying one coordinate without the other.
ParseOutputs ==
    { [NoTags EXCEPT !["Make"] = Some("Canon"), !["DateTimeOriginal"] = Some(1),
                     !["latitude"] = Some(37), !["longitude"] = Some(-122)],
      [NoTags EXCEPT !["latitude"] = Some(37)] }

ParseOutcomes ==
    {[kind |-> "throw", output |-> None], [kind |-> "value", output |-> None]}
    \cup {[kind |-> "value", output |-> Some(o)] : o \in ParseOutputs}

\* new Date(d).toLocaleString(): the display string of instant d.
ToLocaleString(d) == <<"localized", d>>

\* extractExifData without its try/catch: a thrown parse rejects the promise.
extractExifData_NoCatch(parse) ==
    IF parse.kind = "throw" THEN Reject
    ELSE IF ~IsSome(parse.output) THEN Resolve(None)
    ELSE Resolve(Some([make |-> Get(parse.output)["Make"]]))

\* extractExifData: the whole body is inside try/catch; a thrown parse and an
\* empty output both give null, otherwise the twelve whitelisted fields are
\* copied (the timestamp through toLocaleString when truthy).
extractExifData(parse) ==
    IF parse.kind = "throw" THEN Resolve(None)
    ELSE IF ~IsSome(parse.output) THEN Resolve(None)
    ELSE LET output == Get(parse.output) IN
         Resolve(Some(
           [make |-> output["Make"],
            model |-> output["Model"],
            dateTimeOriginal |->
                IF IsSome(output["DateTimeOriginal"])
                THEN Some(ToLocaleString(Get(output["DateTimeOriginal"])))
                ELSE None,
            exposureTime |-> output["ExposureTime"],
            fNumber |-> output["FNumber"],
            iso |-> output["ISO"],
            focalLength |-> output["FocalLength"],
            latitude |-> output["latitude"],
            longitude |-> output["longitude"],
            software |-> output["Software"],
            width |-> output["ExifImageWidth"],
            height |-> output["ExifImageHeight"]]))

\* String.prototype.split(','): the segments between the commas.
RECURSIVE SplitAcc(_, _, _)
SplitAcc(s, cur, acc) ==
    IF s = <<>> THEN Append(acc, cur)
    ELSE IF Head(s) = "," THEN SplitAcc(Tail(s), <<>>, Append(acc, cur))
    ELSE SplitAcc(Tail(s), Append(cur, Head(s)), acc)

Split(s) == SplitAcc(s, <<>>, <<>>)

\* JavaScript array indexing a[i] (0-based): undefined past the end.
At(a, i) == IF i + 1 \in DOMAIN a THEN Some(a[i + 1]) ELSE None

\* What the FileReader may end with: onerror, or onload with a data URL.
\* Strings are sequences of characters: "p" stands for the "data:<mime>;base64"
\* prefix, "A" and "B" for payload characters.  A browser reads an empty file
\* as "data:" (no comma), or as a prefix with an empty payload.
ReadOutcomes ==
    {[kind |-> "error", type |-> "null", chars |-> <<>>]}
    \cup {[kind |-> "load", type |-> "string", chars |-> c] :
            c \in {<<"p", ",", "A", "B">>, <<"p", ",">>, <<"p">>}}

\* fileToBase64: onerror rejects; onload resolves with split(',')[1] of a
\* string result (undefined when there is no comma) and rejects otherwise.
fileToBase64(read) ==
    IF read.kind = "error" THEN Reject
    ELSE IF read.type = "string" THEN Resolve(At(Split(read.chars), 1))
    ELSE Reject

\* What the browser does with the sanitizer's image and canvas: the image fails
\* to decode, getContext('2d') gives null, toBlob delivers null, or toBlob
\* delivers the re-encoded bytes.
CleanOutcomes == {"decodeError", "noContext", "noBlob", "blob"}

\* The outcomes in which no clean image is produced.
CleanFaults == {"decodeError", "noContext", "noBlob"}

\* cleanImageMetadata: img.onerror and a missing context reject; otherwise the
\* promise resolves with whatever toBlob delivers, null included.
cleanImageMetadata(outcome) ==
    IF outcome = "decodeError" THEN Reject
    ELSE IF outcome = "noContext" THEN Reject
    ELSE IF outcome = "noBlob" THEN Resolve(None)
    ELSE Resolve(Some("blob"))

\* ----------------------------------------------- services/geminiService.ts
\* process.env.API_KEY as the build may define it: absent, or a key.
ApiKeys == {None, Some("key")}

\* getAiClient: throws when the key is falsy, otherwise constructs the client.
getAiClient(key) ==
    IF ~IsSome(key) \/ key = Some("") THEN [kind |-> "throw"] ELSE [kind |-> "ok"]

\* The record analyzeImageWithGemini returns from its catch block.
Fallback ==
    [objects |-> <<>>,
     peopleCount |-> 0,
     sceneType |-> "Unknown",
     imageCategory |-> "Other",
     dominantColors |-> <<>>,
     faceEmotion |-> "None",
     isSafe |-> TRUE,
     authenticity |-> [isLikelyEdited |-> FALSE, reason |-> "Analysis failed", score |-> 0],
     ocrText |-> ""]

\* The fields the response schema lists as required.
RequiredFields == {"objects", "peopleCount", "sceneType", "imageCategory",
                   "dominantColors", "faceEmotion", "isSafe", "authenticity", "ocrText"}

\* Sample JSON objects a response text may denote: one with every field and
\* values inside the schema, one with only two of the nine fields, and one
\* with every field but values outside the closed sets of the data model.
FullAnalysis ==
    [objects |-> <<"cat">>,
     peopleCount |-> 1,
     sceneType |-> "Indoor",
     imageCategory |-> "Photo",
     dominantColors |-> <<"#ffffff">>,
     faceEmotion |-> "Happy",
     isSafe |-> TRUE,
     authenticity |-> [isLikelyEdited |-> TRUE, reason |-> "blur", score |-> 80],
     ocrText |-> "hi"]

PartialAnalysis == [objects |-> <<"cat">>, peopleCount |-> 1]

OffSchemaAnalysis ==
    [FullAnalysis EXCEPT !.imageCategory = "Meme", !.peopleCount = -1,
                         !.authenticity = [isLikelyEdited |-> TRUE, reason |-> "blur", score |-> 150]]

\* JSON.parse on the sample response texts: a SyntaxError for text that is not
\* JSON, otherwise the value the text denotes (the JSON text null denotes null).
JSONParse(text) ==
    CASE text = "{full}" -> [kind |-> "ok", value |-> Some(FullAnalysis)]
      [] text = "{partial}" -> [kind |-> "ok", value |-> Some(PartialAnalysis)]
      [] text = "{offschema}" -> [kind |-> "ok", value |-> Some(OffSchemaAnalysis)]
      [] text = "null" -> [kind |-> "ok", value |-> None]
      [] OTHER -> [kind |-> "throw", value |-> None]

ResponseTexts == {"", "<html>", "{full}", "{partial}", "{offschema}", "null"}

\* How ai.models.generateContent may settle: it throws (network or HTTP
\* failure), or gives a response whose text is undefined or one of the texts.
ServiceOutcomes ==
    {[kind |-> "throw", text |-> None], [kind |-> "response", text |-> None]}
    \cup {[kind |-> "response", text |-> Some(t)] : t \in ResponseTexts}

\* The settlement handed to a call that never reached the service.
NoCall == [kind |-> "nocall", text |-> None]

\* analyzeImageWithGemini with getAiClient() called before the try block: a
\* missing credential rejects the promise.
analyzeImageWithGemini_ClientOutsideTry(key, svc) ==
    IF getAiClient(key).kind = "throw" THEN Reject
    ELSE IF svc.kind # "response" THEN Resolve(Some(Fallback))
    ELSE IF IsSome(svc.text) /\ Get(svc.text) # ""
         THEN LET parsed == JSONParse(Get(svc.text)) IN
              IF parsed.kind = "throw" THEN Resolve(Some(Fallback))
              ELSE Resolve(parsed.value)
         ELSE Resolve(Some(Fallback))

\* analyzeImageWithGemini: everything is inside one try/catch whose catch block
\* returns Fallback.  Inside: getAiClient(), the awaited generateContent, then
\* `if (response.text) return JSON.parse(response.text)` (cast, not validated),
\* else a throw.
analyzeImageWithGemini(key, svc) ==
    IF getAiClient(key).kind = "throw" THEN Resolve(Some(Fallback))
    ELSE IF svc.kind # "response" THEN Resolve(Some(Fallback))
    ELSE IF IsSome(svc.text) /\ Get(svc.text) # ""
         THEN LET parsed == JSONParse(Get(svc.text)) IN
              IF parsed.kind = "throw" THEN Resolve(Some(Fallback))
              ELSE Resolve(parsed.value)
         ELSE Resolve(Some(Fallback))

\* Whether the call gets as far as submitting the request to the service.
RequestSubmitted(key) == getAiClient(key).kind = "ok"

\* ------------------------------------------------------------------ App.tsx
VARIABLES
    data,          \* useState<ProcessedImage | null>: None or Some(record)
    showCamera,    \* useState(false)
    now,           \* the latest reading of Date.now()
    apiKey,        \* process.env.API_KEY of this build
    runs,          \* the activations of handleImageSelect, in call order
    revoked,       \* per object URL created: how often revokeObjectURL got it
    writer,        \* which run last wrote exif / aiAnalysis / error of `data`
    last,          \* the awaited call the latest step settled (none: a user event)
    pendingBlobs,  \* camera canvas.toBlob callbacks not yet delivered
    cleans,        \* handlePrivacyClean activations awaiting cleanImageMetadata
    lastClean,     \* what the latest step of handlePrivacyClean did
    cams           \* the CameraCapture instances mounted so far, in mount order

vars == <<data, showCamera, now, apiKey, runs, revoked, writer, last, pendingBlobs,
          cleans, lastClean, cams>>

\* Number.prototype.toString(): the decimal digits of n >= 0.
Digits == <<"0", "1", "2", "3", "4", "5", "6", "7", "8", "9">>

RECURSIVE toString(_)
toString(n) ==
    IF n < 10 THEN <<Digits[n + 1]>>
    ELSE toString(n \div 10) \o <<Digits[(n % 10) + 1]>>

\* The files the upload input and the drop zone may hand over (File names);
\* the same file may be chosen again, and each choice makes a new record.
Uploads == {<<"a.jpg">>}

\* The File the camera builds from a blob: `capture_${Date.now()}.jpg`.
CaptureFile(t) == <<"capture_">> \o toString(t) \o <<".jpg">>

ErrorText == "Failed to process image fully."

\* No run has written the field (of the record now in `data`).
NoWriter == [exif |-> 0, aiAnalysis |-> 0, error |-> 0]

\* The record handleImageSelect installs first.
NewImage(file, url, t) ==
    [id |-> toString(t),
     file |-> file,
     previewUrl |-> url,
     exif |-> None,
     aiAnalysis |-> None,
     isProcessing |-> TRUE,
     error |-> None]

\* The metadata merge dropping a null result (prev kept as it is).
MergeExif_SkipsNull(prev, exifData) ==
    IF IsSome(prev) /\ IsSome(exifData)
    THEN Some([Get(prev) EXCEPT !.exif = exifData])
    ELSE prev

\* The metadata merge without the null test: `{ ...prev, exif: exifData }`
\* of a null prev is a record with the exif field alone (the fields it lacks
\* are shown empty).
MergeExif_NoNullTest(prev, exifData) ==
    IF IsSome(prev) THEN Some([Get(prev) EXCEPT !.exif = exifData])
    ELSE Some([id |-> <<>>, file |-> <<>>, previewUrl |-> 0, exif |-> exifData,
               aiAnalysis |-> None, isProcessing |-> FALSE, error |-> None])

\* setData(prev => prev ? { ...prev, exif: exifData } : null)
MergeExif(prev, exifData) ==
    IF IsSome(prev) THEN Some([Get(prev) EXCEPT !.exif = exifData]) ELSE None

\* The analysis merge building its record without spreading prev's asset.
MergeAnalysis_DropsAsset(prev, aiResult) ==
    IF IsSome(prev)
    THEN Some([Get(prev) EXCEPT !.aiAnalysis = aiResult, !.isProcessing = FALSE,
                                !.file = <<>>])
    ELSE None

\* setData(prev => prev ? { ...prev, aiAnalysis: aiResult, isProcessing: false } : null)
MergeAnalysis(prev, aiResult) ==
    IF IsSome(prev)
    THEN Some([Get(prev) EXCEPT !.aiAnalysis = aiResult, !.isProcessing = FALSE])
    ELSE None

\* The catch block's update without `isProcessing: false`.
MergeError_KeepsProcessing(prev) ==
    IF IsSome(prev) THEN Some([Get(prev) EXCEPT !.error = Some(ErrorText)]) ELSE None

\* setData(prev => prev ? { ...prev, isProcessing: false, error: "..." } : null)
MergeError(prev) ==
    IF IsSome(prev)
    THEN Some([Get(prev) EXCEPT !.isProcessing = FALSE, !.error = Some(ErrorText)])
    ELSE None

\* The writer bookkeeping of a functional update by run r to `field`: the
\* update touches a record only when there is one.
Wrote(prev, field, r) == IF IsSome(prev) THEN [writer EXCEPT ![field] = r] ELSE writer

\* No awaited call has settled yet.
NoSettle == [run |-> 0, call |-> "none", input |-> None, settled |-> Reject]

\* Run r's awaited `call`, given `input` by its environment, settled as `settled`.
Settle(r, call, input, settled) ==
    [run |-> r, call |-> call, input |-> Some(input), settled |-> settled]

\* handlePrivacyClean has not run.
NoClean == [call |-> "none", outcome |-> "none", effect |-> "none", name |-> None]

Init ==
    /\ data = None
    /\ showCamera = FALSE
    /\ now = 0
    /\ apiKey \in ApiKeys
    /\ runs = <<>>
    /\ revoked = <<>>
    /\ writer = NoWriter
    /\ last = NoSettle
    /\ pendingBlobs = 0
    /\ cleans = <<>>
    /\ lastClean = NoClean
    /\ cams = <<>>

\* The readings Date.now() may give next: the clock never runs backwards.
ClockReadings == now .. MaxClock

\* A run that starts extraction and encoding together instead of one after
\* the other.
StartRun_EncodeInParallel(url) ==
    [pc |-> "awaitExif", url |-> url, encode |-> "pending",
     analyzeCalled |-> FALSE, requested |-> FALSE, caught |-> FALSE]

\* A run of handleImageSelect suspended at its first await: extractExifData has
\* been called, fileToBase64 and analyzeImageWithGemini have not.
StartRun(url) ==
    [pc |-> "awaitExif", url |-> url, encode |-> "none",
     analyzeCalled |-> FALSE, requested |-> FALSE, caught |-> FALSE]

\* handleImageSelect up to its first await: createObjectURL, the new record
\* (its id from Date.now(), which reads t), setData, setShowCamera(false), and
\* the call of extractExifData.
HandleImageSelect(file, t) ==
    /\ Len(runs) < MaxRuns
    /\ LET url == Len(revoked) + 1 IN
       /\ revoked' = Append(revoked, 0)
       /\ data' = Some(NewImage(file, url, t))
       /\ runs' = Append(runs, StartRun(url))
    /\ now' = t
    /\ showCamera' = FALSE
    /\ writer' = NoWriter
    /\ last' = NoSettle

\* The file input's onChange and the drop zone's onDrop; both are rendered
\* only while there is no record (`!data`).
Upload ==
    /\ data = None
    /\ \E file \in Uploads, t \in ClockReadings : HandleImageSelect(file, t)
    /\ UNCHANGED <<apiKey, pendingBlobs, cleans, lastClean>>

\* The close button of the image card: setData(null).
Discard ==
    /\ IsSome(data)
    /\ data' = None
    /\ writer' = NoWriter
    /\ last' = NoSettle
    /\ UNCHANGED <<showCamera, now, apiKey, runs, revoked, pendingBlobs, cleans, lastClean,
                   cams>>

\* The "Open Camera" button (part of the upload view): setShowCamera(true).
OpenCamera ==
    /\ data = None
    /\ ~showCamera
    /\ showCamera' = TRUE
    /\ last' = NoSettle
    /\ UNCHANGED <<data, now, apiKey, runs, revoked, writer, pendingBlobs, cleans, lastClean>>

\* CameraCapture's close button: onClose is setShowCamera(false).
CloseCamera ==
    /\ showCamera
    /\ showCamera' = FALSE
    /\ last' = NoSettle
    /\ UNCHANGED <<data, now, apiKey, runs, revoked, writer, pendingBlobs, cleans, lastClean>>

\* CameraCapture.handleCapture: draws the frame and asks for a blob; the
\* callback comes later.
Capture ==
    /\ showCamera
    /\ Len(runs) + pendingBlobs < MaxRuns
    /\ pendingBlobs' = pendingBlobs + 1
    /\ last' = NoSettle
    /\ UNCHANGED <<data, showCamera, now, apiKey, runs, revoked, writer, cleans, lastClean>>

\* A toBlob callback: with a blob it builds the File (Date.now() reads t1) and
\* calls onCapture, which is handleImageSelect (Date.now() reads t2); with null
\* it does nothing.
ToBlob ==
    /\ pendingBlobs > 0
    /\ pendingBlobs' = pendingBlobs - 1
    /\ \E blob \in BOOLEAN :
         IF blob
         THEN \E t1 \in ClockReadings : \E t2 \in t1 .. MaxClock :
                 HandleImageSelect(CaptureFile(t1), t2)
         ELSE /\ last' = NoSettle
              /\ UNCHANGED <<data, showCamera, now, runs, revoked, writer>>
    /\ UNCHANGED <<apiKey, cleans, lastClean>>

\* The run's record with the given fields replaced.
SetRun(r, new) == [runs EXCEPT ![r] = new]

\* `await extractExifData(file)` settles and handleImageSelect goes on to its
\* second await: it merges the metadata and calls fileToBase64.  A rejection
\* would land in the catch block.
ExifSettle(r) ==
    /\ runs[r].pc = "awaitExif"
    /\ \E parse \in ParseOutcomes :
         LET settled == extractExifData(parse) IN
         /\ last' = Settle(r, "extract", parse, settled)
         /\ IF settled.kind = "resolve"
            THEN /\ data' = MergeExif(data, settled.value)
                 /\ writer' = Wrote(data, "exif", r)
                 /\ runs' = SetRun(r, [runs[r] EXCEPT !.pc = "awaitBase64",
                                                      !.encode = "pending"])
            ELSE /\ data' = MergeError(data)
                 /\ writer' = Wrote(data, "error", r)
                 /\ runs' = SetRun(r, [runs[r] EXCEPT !.pc = "done", !.caught = TRUE])
    /\ UNCHANGED <<showCamera, now, apiKey, revoked, pendingBlobs, cleans, lastClean, cams>>

\* `await fileToBase64(file)` settles.  Resolved: analyzeImageWithGemini is
\* called and runs up to its own await (the request is submitted if a client
\* could be built).  Rejected: the catch block.
Base64Settle(r) ==
    /\ runs[r].pc = "awaitBase64"
    /\ \E read \in ReadOutcomes :
         LET settled == fileToBase64(read) IN
         /\ last' = Settle(r, "encode", read, settled)
         /\ IF settled.kind = "resolve"
            THEN /\ runs' = SetRun(r, [runs[r] EXCEPT !.pc = "awaitAnalysis",
                                                      !.encode = "resolved",
                                                      !.analyzeCalled = TRUE,
                                                      !.requested = RequestSubmitted(apiKey)])
                 /\ UNCHANGED <<data, writer>>
            ELSE /\ data' = MergeError(data)
                 /\ writer' = Wrote(data, "error", r)
                 /\ runs' = SetRun(r, [runs[r] EXCEPT !.pc = "done",
                                                      !.encode = "rejected",
                                                      !.caught = TRUE])
    /\ UNCHANGED <<showCamera, now, apiKey, revoked, pendingBlobs, cleans, lastClean, cams>>

\* `await analyzeImageWithGemini(base64)` settles and handleImageSelect
\* finishes: it merges the analysis, or, on a rejection, runs the catch block.
AnalysisSettle(r) ==
    /\ runs[r].pc = "awaitAnalysis"
    /\ \E svc \in (IF runs[r].requested THEN ServiceOutcomes ELSE {NoCall}) :
         LET settled == analyzeImageWithGemini(apiKey, svc) IN
         /\ last' = Settle(r, "analyze", svc, settled)
         /\ IF settled.kind = "resolve"
            THEN /\ data' = MergeAnalysis(data, settled.value)
                 /\ writer' = Wrote(data, "aiAnalysis", r)
                 /\ runs' = SetRun(r, [runs[r] EXCEPT !.pc = "done"])
            ELSE /\ data' = MergeError(data)
                 /\ writer' = Wrote(data, "error", r)
                 /\ runs' = SetRun(r, [runs[r] EXCEPT !.pc = "done", !.caught = TRUE])
    /\ UNCHANGED <<showCamera, now, apiKey, revoked, pendingBlobs, cleans, lastClean, cams>>

\* A guard that lets every call through.
HasPreview_Always(d) == TRUE

\* `!data?.previewUrl` is false: there is a record and its previewUrl is a
\* non-empty string (object URLs are numbered from 1 here).
HasPreview(d) == IsSome(d) /\ Get(d).previewUrl # 0

\* handlePrivacyClean up to its await, for the `data` of the render it closes
\* over: the guard returns; past the guard, reading data.previewUrl of null
\* throws inside the try block; otherwise cleanImageMetadata is called.
handlePrivacyClean(d) ==
    IF ~HasPreview(d) THEN "return"
    ELSE IF ~IsSome(d) THEN "throw"
    ELSE "call"

\* a.download = `clean_${data.file.name}`
CleanName(file) == <<"clean_">> \o file

\* A continuation whose catch block also marks the record as failed, as the
\* catch block of handleImageSelect does.
AfterClean_MarksRecord(d, name, settled) ==
    IF settled.kind = "resolve"
    THEN IF IsSome(settled.value)
         THEN [data |-> d, effect |-> "download", name |-> Some(CleanName(name))]
         ELSE [data |-> d, effect |-> "none", name |-> None]
    ELSE [data |-> MergeError(d), effect |-> "alert", name |-> None]

\* handlePrivacyClean after its await, in an application whose record is d:
\* a blob is offered as a download under `name`, null does nothing, a
\* rejection alerts.  No branch calls setData.
AfterClean(d, name, settled) ==
    IF settled.kind = "resolve"
    THEN IF IsSome(settled.value)
         THEN [data |-> d, effect |-> "download", name |-> Some(CleanName(name))]
         ELSE [data |-> d, effect |-> "none", name |-> None]
    ELSE [data |-> d, effect |-> "alert", name |-> None]

\* A call of handlePrivacyClean (the "Download Clean Image" button is its only
\* caller).  The object URL of the download is created and revoked inside
\* the continuation, so it leaves no trace in `revoked`.
PrivacyClean ==
    /\ Len(cleans) < MaxCleans
    /\ LET step == handlePrivacyClean(data) IN
       /\ cleans' = IF step = "call"
                     THEN Append(cleans, [url |-> Get(data).previewUrl,
                                          file |-> Get(data).file])
                     ELSE cleans
       /\ lastClean' = [call |-> step, outcome |-> "none",
                        effect |-> IF step = "throw" THEN "alert" ELSE "none",
                        name |-> None]
    /\ UNCHANGED <<data, showCamera, now, apiKey, runs, revoked, writer, last,
                   pendingBlobs, cams>>

\* The sequence without its i-th element.
Without(seq, i) == SubSeq(seq, 1, i - 1) \o SubSeq(seq, i + 1, Len(seq))

\* `await cleanImageMetadata(data.previewUrl)` of the i-th outstanding
\* activation settles and handlePrivacyClean finishes.
CleanSettle(i) ==
    /\ \E outcome \in CleanOutcomes :
         LET after == AfterClean(data, cleans[i].file, cleanImageMetadata(outcome)) IN
         /\ data' = after.data
         /\ lastClean' = [call |-> "settle", outcome |-> outcome,
                          effect |-> after.effect, name |-> after.name]
    /\ cleans' = Without(cleans, i)
    /\ UNCHANGED <<showCamera, now, apiKey, runs, revoked, writer, last, pendingBlobs,
                   cams>>

\* ------------------------------------------- components/CameraCapture.tsx
\* A CameraCapture instance after its first render and effect: getUserMedia
\* is pending, the `stream` state is null, no capture is outstanding.
\* `caps` / `capsNull` count the outstanding toBlob callbacks of handleCapture
\* closures that saw a stream / saw null.
NewCamera ==
    [mounted |-> TRUE, media |-> "pending", stream |-> FALSE, caps |-> 0, capsNull |-> 0]

\* stopCamera as a closure that saw `stream`: it stops the tracks if it saw one.
stopCamera(cam, stream) ==
    IF stream /\ cam.media = "live" THEN [cam EXCEPT !.media = "stopped"] ELSE cam

\* The component goes away.  The effect's cleanup closes over the `stream` of
\* the first render (the dependency list is empty), which is null: it stops
\* nothing.
Cleanup(cam) == [stopCamera(cam, FALSE) EXCEPT !.mounted = FALSE]

\* showCamera becomes true: the component mounts and its effect calls
\* startCamera.
Mount ==
    /\ Len(cams) < MaxMounts
    /\ cams' = Append(cams, NewCamera)

\* The close button: stopCamera() of the current render, then onClose().
CloseClick ==
    cams' = [c \in DOMAIN cams |->
                IF cams[c].mounted
                THEN Cleanup(stopCamera(cams[c], cams[c].stream))
                ELSE cams[c]]

\* handleCapture of the current render: without a video element (the error
\* view) it does nothing; otherwise it draws and asks for a blob.
CaptureClick ==
    \E c \in DOMAIN cams :
        /\ cams[c].mounted
        /\ cams[c].media # "denied"
        /\ cams' = [cams EXCEPT ![c] =
                       IF cams[c].stream THEN [@ EXCEPT !.caps = @ + 1]
                       ELSE [@ EXCEPT !.capsNull = @ + 1]]

\* handleImageSelect's setShowCamera(false) takes the mounted instance away.
Unmount ==
    cams' = [c \in DOMAIN cams |-> IF cams[c].mounted THEN Cleanup(cams[c]) ELSE cams[c]]

\* A toBlob callback of instance c whose handleCapture saw `stream`.  A video
\* without a stream has no frame (the canvas is 0 x 0), so a blob is delivered
\* only to closures that saw one; with a blob: onCapture(file), which is
\* handleImageSelect, then stopCamera().
BlobCallback ==
    \E c \in DOMAIN cams, stream \in BOOLEAN :
        LET delivered == Len(runs') > Len(runs)
            rest == IF stream THEN [cams[c] EXCEPT !.caps = @ - 1]
                    ELSE [cams[c] EXCEPT !.capsNull = @ - 1]
        IN
        /\ IF stream THEN cams[c].caps > 0 ELSE cams[c].capsNull > 0
        /\ delivered => stream
        /\ cams' = [k \in DOMAIN cams |->
                       IF ~delivered THEN (IF k = c THEN rest ELSE cams[k])
                       ELSE IF k = c
                            THEN stopCamera(IF rest.mounted THEN Cleanup(rest) ELSE rest,
                                            stream)
                            ELSE IF cams[k].mounted THEN Cleanup(cams[k]) ELSE cams[k]]

\* `await navigator.mediaDevices.getUserMedia(...)` of instance c settles:
\* granted, the tracks are live and setStream stores the stream (no effect on
\* an unmounted component); refused, setError.
MediaSettle(c) ==
    /\ cams[c].media = "pending"
    /\ \E granted \in BOOLEAN :
         cams' = [cams EXCEPT ![c] =
                     IF granted
                     THEN [@ EXCEPT !.media = "live", !.stream = cams[c].mounted]
                     ELSE [@ EXCEPT !.media = "denied"]]
    /\ UNCHANGED <<data, showCamera, now, apiKey, runs, revoked, writer, last,
                   pendingBlobs, cleans, lastClean>>

\* The application with the camera component reduced to its outstanding
\* toBlob callbacks (`cams` is not followed).
Next ==
    \/ Upload /\ UNCHANGED cams
    \/ Discard
    \/ OpenCamera /\ UNCHANGED cams
    \/ CloseCamera /\ UNCHANGED cams
    \/ Capture /\ UNCHANGED cams
    \/ ToBlob /\ UNCHANGED cams
    \/ \E r \in DOMAIN runs : ExifSettle(r)
    \/ \E r \in DOMAIN runs : Base64Settle(r)
    \/ \E r \in DOMAIN runs : AnalysisSettle(r)

Spec == Init /\ [][Next]_vars

\* The application with the privacy-clean operation, used from the upload
\* input (the camera is left closed).
CleanNext ==
    \/ Len(runs) < MaxCleanRuns /\ Upload /\ UNCHANGED cams
    \/ Discard
    \/ \E r \in DOMAIN runs : ExifSettle(r)
    \/ \E r \in DOMAIN runs : Base64Settle(r)
    \/ \E r \in DOMAIN runs : AnalysisSettle(r)
    \/ PrivacyClean
    \/ \E i \in DOMAIN cleans : CleanSettle(i)

CleanSpec == Init /\ [][CleanNext]_vars

\* The application's camera path with the CameraCapture component in full:
\* each App handler together with what it does to the component.
CameraNext ==
    \/ OpenCamera /\ Mount
    \/ CloseCamera /\ CloseClick
    \/ Capture /\ CaptureClick
    \/ ToBlob /\ BlobCallback
    \/ Upload /\ Unmount
    \/ Discard
    \/ \E c \in DOMAIN cams : MediaSettle(c)

CameraSpec == Init /\ [][CameraNext]_vars

\* ================================================================ claims
\* Run r is the run that created the record now in `data` (a preview URL is
\* created once per run, so it identifies the record).
Active(r) == IsSome(data) /\ Get(data).previewUrl = runs[r].url

\* The four failures analyzeImageWithGemini names: no credential, the request
\* throwing, a response without text, text that is not JSON.
AnalysisFault(key, svc) ==
    \/ ~IsSome(key)
    \/ svc.kind = "throw"
    \/ svc.kind = "response" /\ (~IsSome(svc.text) \/ Get(svc.text) = "")
    \/ svc.kind = "response" /\ IsSome(svc.text) /\ Get(svc.text) # ""
          /\ JSONParse(Get(svc.text)).kind = "throw"

\* A response whose text is JSON but denotes no object with all nine fields.
Incomplete(svc) ==
    /\ svc.kind = "response"
    /\ IsSome(svc.text)
    /\ JSONParse(Get(svc.text)).kind = "ok"
    /\ LET value == JSONParse(Get(svc.text)).value IN
       ~IsSome(value) \/ RequiredFields \ DOMAIN Get(value) # {}

\* The analysis service failed for this call, in any of the ways above.
ServiceFailed(key, svc) == AnalysisFault(key, svc) \/ Incomplete(svc)

\* C1: the analysis attached to the active record was produced by the run that
\* created that record, never by a run started for an earlier record.
C1_AnalysisFromOwnRun ==
    \A r \in DOMAIN runs :
        Active(r) /\ writer.aiAnalysis # 0 => writer.aiAnalysis = r

\* C2: every preview URL is released exactly once, when its record is
\* superseded or discarded: never while its record is active, and once after.
C2_PreviewReleasedExactlyOnce ==
    \A r \in DOMAIN runs :
        revoked[runs[r].url] = IF Active(r) THEN 0 ELSE 1

\* C3: when the analysis service fails for the active record, the record is
\* Complete right after (not processing, no error) with the fallback analysis.
C3_ServiceFailureEndsComplete ==
    last.call = "analyze" /\ ServiceFailed(apiKey, Get(last.input)) /\ Active(last.run)
        => /\ ~Get(data).isProcessing
           /\ Get(data).error = None
           /\ Get(data).aiAnalysis = Some(Fallback)

\* C4: for every response that is empty, unparseable, or parseable but not
\* complete, analyzeImageWithGemini resolves with exactly the fallback record.
C4_MalformedResponseGivesFallback ==
    last.call = "analyze" /\ Get(last.input).kind = "response"
        /\ ServiceFailed(apiKey, Get(last.input))
        => last.settled = Resolve(Some(Fallback))

\* C5: analyzeImageWithGemini never rejects; for each of its four named
\* failures it resolves with a record of all nine fields; and without a
\* credential no request is submitted.
C5_AnalyzeNeverFailsOutward ==
    /\ last.call = "analyze" =>
          /\ last.settled.kind = "resolve"
          /\ AnalysisFault(apiKey, Get(last.input)) =>
                /\ IsSome(last.settled.value)
                /\ DOMAIN Get(last.settled.value) = RequiredFields
    /\ \A r \in DOMAIN runs :
          /\ ~IsSome(apiKey) => ~runs[r].requested
          /\ runs[r].analyzeCalled /\ runs[r].pc = "done" => ~runs[r].caught

\* C5 witness: a call without credential has settled, resolved, with no request.
C5_Witness ==
    /\ last.call = "analyze"
    /\ ~IsSome(apiKey)
    /\ runs[last.run].analyzeCalled /\ ~runs[last.run].requested
    /\ last.settled.kind = "resolve"

\* C6: extractExifData never rejects; when the parse throws or yields nothing
\* it resolves with null.
C6_ExtractNeverRaises ==
    last.call = "extract" =>
        /\ last.settled.kind = "resolve"
        /\ (Get(last.input).kind = "throw" \/ ~IsSome(Get(last.input).output))
              => last.settled.value = None

\* C6 witness: a parse that threw has settled an extraction.
C6_Witness ==
    /\ last.call = "extract"
    /\ Get(last.input).kind = "throw"
    /\ last.settled = Resolve(None)

\* C7: in every record extractExifData returns, latitude and longitude are both
\* present or both absent.
C7_CoordinatesTogether ==
    last.call = "extract" /\ last.settled.kind = "resolve" /\ IsSome(last.settled.value)
        => (IsSome(Get(last.settled.value).latitude)
              <=> IsSome(Get(last.settled.value).longitude))

\* C8: whatever extraction yields, the run merges it and invokes fileToBase64:
\* every run past its first await has started the encode step, and right after
\* an extraction settles the active record of that run carries its result.
C8_ProceedsToEncode ==
    /\ \A r \in DOMAIN runs : runs[r].pc # "awaitExif" => runs[r].encode # "none"
    /\ last.call = "extract" /\ Active(last.run)
          => Get(data).exif = last.settled.value

\* C8 witness: an extraction that yielded nothing was merged into the active
\* record and the run is awaiting fileToBase64.
C8_Witness ==
    /\ last.call = "extract"
    /\ last.settled = Resolve(None)
    /\ Active(last.run)
    /\ runs[last.run].pc = "awaitBase64"
    /\ Get(data).exif = None

\* C9: when fileToBase64 fails for the active record's run, the record is
\* Degraded (not processing, error recorded), the run is over, and it never
\* called analyzeImageWithGemini.
C9_EncodeFailureDegrades ==
    \A r \in DOMAIN runs :
        runs[r].encode = "rejected" =>
            /\ runs[r].pc = "done"
            /\ ~runs[r].analyzeCalled
            /\ ~runs[r].requested
            /\ Active(r) => /\ ~Get(data).isProcessing
                            /\ Get(data).error = Some(ErrorText)

\* C9 witness: the active record's encode step failed.
C9_Witness ==
    \E r \in DOMAIN runs :
        /\ runs[r].encode = "rejected"
        /\ Active(r)
        /\ Get(data).error = Some(ErrorText)

\* C10: the active record's error detail is set only if its own run faulted
\* (its catch block ran).
C10_ErrorOnlyFromOwnRun ==
    \A r \in DOMAIN runs :
        Active(r) /\ IsSome(Get(data).error) => runs[r].caught

\* C11: a record whose error detail is set has no analysis attached.
C11_ErrorExcludesAnalysis ==
    IsSome(data) => ~(IsSome(Get(data).error) /\ IsSome(Get(data).aiAnalysis))

\* The step keeps the record in `data` (it neither replaces nor discards it).
KeepsRecord ==
    IsSome(data) /\ IsSome(data') /\ Get(data').previewUrl = Get(data).previewUrl

\* C12: once the active record is terminal (not processing), no step that
\* keeps the record changes any of its fields.
C12_TerminalRecordIsFrozen ==
    [][KeepsRecord /\ ~Get(data).isProcessing => data' = data]_vars

\* C13: exif and aiAnalysis are each written at most once per record: a field
\* some run has written is not written again while the record stays.
C13_FieldsWrittenOnce ==
    [][KeepsRecord =>
          /\ writer.exif # 0 => writer'.exif = writer.exif
          /\ writer.aiAnalysis # 0 => writer'.aiAnalysis = writer.aiAnalysis]_vars

\* C18: the metadata attached to the active record was extracted by the run
\* that created that record, never by a run started for an earlier record.
C18_ExifFromOwnRun ==
    \A r \in DOMAIN runs :
        Active(r) /\ writer.exif # 0 => writer.exif = r

\* The closed-value constraints of AIAnalysisResult on a complete record.
ImageCategories == {"Selfie", "Document", "Screenshot", "Photo", "Other"}

FaceEmotions == {"Happy", "Neutral", "Sad", "Angry", "Surprised", "None"}

InClosedValues(a) ==
    /\ a.imageCategory \in ImageCategories
    /\ a.faceEmotion \in FaceEmotions
    /\ a.peopleCount >= 0
    /\ a.authenticity.score >= 0 /\ a.authenticity.score <= 100
    /\ Len(a.dominantColors) <= 5

\* C19: every complete analysis attached to a record has its values inside the
\* closed sets of the data model.
C19_AttachedAnalysisInClosedValues ==
    IsSome(data) /\ IsSome(Get(data).aiAnalysis)
        /\ DOMAIN Get(Get(data).aiAnalysis) = RequiredFields
        => InClosedValues(Get(Get(data).aiAnalysis))

\* C20 (final states): a run that is over has left its record, if still the
\* active one, terminal: not processing, and with an analysis or an error.
C20_FinishedRunLeavesTerminalRecord ==
    \A r \in DOMAIN runs :
        runs[r].pc = "done" /\ Active(r) =>
            /\ ~Get(data).isProcessing
            /\ IsSome(Get(data).aiAnalysis) \/ IsSome(Get(data).error)

\* C17: within one run the encode step starts only after extraction has
\* settled and its result has been merged, so the record of a run that merged
\* its analysis had its metadata merged before.
C17_ExtractMergedBeforeEncode ==
    \A r \in DOMAIN runs :
        /\ runs[r].encode # "none" => runs[r].pc # "awaitExif"
        /\ Active(r) /\ runs[r].encode # "none" => writer.exif # 0
        /\ Active(r) /\ writer.aiAnalysis = r =>
               writer.exif # 0 /\ runs[r].encode = "resolved"

\* The active record shows its own run's metadata while the analysis of that
\* run is still awaited.
C17_Witness ==
    \E r \in DOMAIN runs :
        /\ Active(r)
        /\ runs[r].pc = "awaitAnalysis"
        /\ writer.exif = r
        /\ IsSome(Get(data).exif)
        /\ Get(data).isProcessing
        /\ Get(data).aiAnalysis = None

\* C14: handlePrivacyClean called with no record (or no preview reference)
\* returns at once: no sanitizer call is outstanding afterwards, nothing is
\* downloaded, nothing is alerted, and no state changes.
C14_CleanWithoutRecordIsNoOp ==
    [][PrivacyClean /\ (data = None \/ Get(data).previewUrl = 0) =>
          /\ UNCHANGED <<data, showCamera, now, apiKey, runs, revoked, writer,
                         last, pendingBlobs, cleans>>
          /\ lastClean' = [call |-> "return", outcome |-> "none",
                           effect |-> "none", name |-> None]]_vars

\* handlePrivacyClean has returned at its guard while there is no record.
C14_Witness == data = None /\ lastClean.call = "return"

\* C15: a sanitization that produced no clean image (decode failure, no
\* raster context, or no bytes from re-serialization) ends with the alert and
\* without a download.
C15_FailedCleanAlerts ==
    lastClean.call = "settle" /\ lastClean.outcome \in CleanFaults =>
        lastClean.effect = "alert"

\* C16: no step of handlePrivacyClean, whether it returns, starts the
\* sanitizer, downloads, alerts or does nothing, changes the active record.
C16_CleanLeavesRecord ==
    [][PrivacyClean \/ (\E i \in DOMAIN cleans : CleanSettle(i)) => data' = data]_vars

\* A sanitization has failed with the alert while the active record's run is
\* still waiting for the analysis.
C16_Witness ==
    /\ lastClean.call = "settle"
    /\ lastClean.effect = "alert"
    /\ \E r \in DOMAIN runs :
          Active(r) /\ runs[r].pc = "awaitAnalysis" /\ Get(data).isProcessing

\* C21: every step that does not install a new record (each metadata,
\* analysis and error merge among them) leaves the record's id, file and
\* previewUrl as they were when the record was created.
C21_IdentityFieldsKept ==
    [][IsSome(data) /\ IsSome(data') /\ Len(runs') = Len(runs) =>
          /\ Get(data').id = Get(data).id
          /\ Get(data').file = Get(data).file
          /\ Get(data').previewUrl = Get(data).previewUrl]_vars

\* The active record has had metadata and analysis merged by its own run and
\* still names the asset it was created for.
C21_Witness ==
    \E r \in DOMAIN runs :
        /\ Active(r)
        /\ writer.exif = r
        /\ writer.aiAnalysis = r
        /\ Get(data).file \in Uploads

\* C22: a settled fileToBase64 has either rejected or resolved with a defined
\* payload, and the payload holds nothing of the data-URL prefix.
C22_EncodeResolvesDefined ==
    last.call = "encode" /\ last.settled.kind = "resolve" =>
        /\ IsSome(last.settled.value)
        /\ \A k \in DOMAIN Get(last.settled.value) :
               Get(last.settled.value)[k] \notin {"p", ","}

\* C23: a record installed by a new call of handleImageSelect has an id
\* different from the id of the record it replaces.
C23_NewRecordHasNewId ==
    [][IsSome(data) /\ IsSome(data') /\ Len(runs') > Len(runs) =>
          Get(data').id # Get(data).id]_vars

\* C24: while there is no record, no step other than a new call of
\* handleImageSelect brings one back: the completions of a run whose record
\* was discarded leave the state absent.
C24_DiscardedStaysAbsent ==
    [][data = None /\ Len(runs') = Len(runs) => data' = None]_vars

\* A run's analysis has been merged after its record was discarded, and
\* there is still no record.
C24_Witness ==
    /\ data = None
    /\ last.call = "analyze"
    /\ last.settled.kind = "resolve"
    /\ runs[last.run].pc = "done"

\* C25: a CameraCapture instance that is gone (closed, captured or unmounted)
\* holds no live media track.
C25_ClosedCameraHasNoLiveTrack ==
    \A c \in DOMAIN cams : ~cams[c].mounted => cams[c].media # "live"

====
